---- MODULE Spec2Model ----
(***************************************************************************)
(* Particle Argon patient monitor: fall detection, orientation, presence,  *)
(* department proximity and the shared publish-rate limiter.               *)
(*                                                                         *)
(* Time is millis() in milliseconds; micros() is 1000 * millis().  Both    *)
(* are unsigned counters.  loop() is cut at the points where it     *)
(* blocks in delay() or calls Particle.process(): there the cloud function *)
(* handler and the button handler can run on the loop's stack.             *)
(***************************************************************************)
EXTENDS Integers, Sequences, FiniteSets, TLC

\* ---- program constants ------------------------------------------------
FALL_DURATION_US == 300000
DEVICE_RE_CHECK_MS == 7500
DEVICE_NOT_HERE_MS == 30000
PUBLISH_INTERVAL_MS == 1100
STATUS_UPDATE_INTERVAL_MS == 300000
DEPT_REPEAT_MS == 60000
FALL_DEBOUNCE_MS == 1000
LSB_PER_G == 16384

\* delayArg before any rate-limit delay has been looked at
NoDelay == -1
\* cmdOut.code before the first call of setStatusFunction
NoCall == -2

\* ---- bounds of the model ----------------------------------------------
\* how many things the environment does in one run (commands, button clicks,
\* changes of the measured acceleration, scan results that match) and how
\* many times time passes between two passes of loop()
MaxEventsFast == 2
MaxTicksFast == 1
MaxEventsSlow == 2
MaxTicksSlow == 2
MaxEventsDwell == 2
MaxTicksDwell == 1
MaxEventsFall == 2
MaxTicksFall == 2
MaxEventsDelay == 2
MaxTicksDelay == 1
MaxEventsPush == 3
MaxTicksPush == 1
MaxEventsCmd == 2
MaxTicksCmd == 1
MaxEventsOrient == 2
MaxTicksOrient == 1
MaxEventsLive == 2
MaxTicksLive == 1
MaxEventsBeacon == 3
MaxTicksBeacon == 2

\* setup() returns once the cloud connection is up: millis() at that point
BootTimes == {DEVICE_RE_CHECK_MS + 500}
\* how long one pass of loop() can take before the next one starts
FastTicks == {299, 300, FALL_DEBOUNCE_MS}
SlowTicks == {DEVICE_NOT_HERE_MS, DEVICE_NOT_HERE_MS + 1}

\* raw accelerometer samples <<ax, ay, az>>: 1 g upright, 0.2 g, exactly 0.5 g
Samples == { <<0, 0, 16384>>, <<0, 0, 3277>>, <<8192, 0, 0>> }

\* samples with the vertical axis at, next to and between the two orientation
\* thresholds (0.4 g = 6553.6, 0.7 g = 11468.8), upright, upside down and falling
OrientSamples ==
    { <<0, 0, 16384>>, <<0, 0, 11469>>, <<0, 0, 11468>>, <<0, 0, 8192>>,
      <<0, 0, 6554>>, <<0, 0, 6553>>, <<0, 0, 3277>>, <<0, 0, -8192>>,
      <<0, 0, -16384>> }

\* BLE addresses: the two department Argons, two other devices, the erased EEPROM value
ARG1 == "AA:BB:CC:DD:EE:01"
ARG2 == "AA:BB:CC:DD:EE:02"
NOADDR == "ff:ff:ff:ff:ff:ff"
Addresses == {ARG1, ARG2, "phone", "watch"}

\* command strings as the cloud delivers them, one character per element:
\* the ten commands, their spellings with other case and surrounding white
\* space, and strings that are no command
Commands ==
    { <<"t", "r", "u", "e">>,
      <<"1">>,
      <<"o", "n">>,
      <<"f", "a", "l", "s", "e">>,
      <<"0">>,
      <<"o", "f", "f">>,
      <<"f", "a", "l", "l">>,
      <<"a", "r", "g", "1">>,
      <<"a", "r", "g", "2">>,
      <<"i", "n", "f", "o">>,
      <<"b", "o", "g", "u", "s">>,
      <<" ", "O", "N", "\n">>,
      <<"T", "r", "u", "e">>,
      <<"\t", "O", "f", "f", " ">>,
      <<"F", "a", "l", "l">>,
      <<"A", "R", "G", "1", " ">>,
      <<" ", "a", "r", "g", "2">>,
      <<"I", "n", "F", "o">>,
      <<"o", " ", "n">>,
      <<>>,
      <<"f", "a", "l">> }

\* the time that passes between two events of a short run
ShortTicks == {300}

\* the time since the last publish when an emitter is entered
DelayTicks == {500, 1099}
\* ms by which the clock advances between two successive reads of millis()
ClockSkews == {0, 1, 2}

\* the commands that switch location push on and off, and one that publishes
PushCommands ==
    { <<"o", "n">>, <<"o", "f", "f">>, <<"f", "a", "l", "l">> }

\* the commands whose handler publishes an event (l.622-650)
EmitCommands ==
    { <<"f", "a", "l", "l">>, <<"a", "r", "g", "1">>, <<"i", "n", "f", "o">> }

VARIABLES
    now,               \* millis()
    pc,                \* where loop() is
    ctx,               \* which emission or delay loop() is in
    wakeAt,            \* millis() at which the pending delay() returns
    accel,             \* the sample the MPU6050 would return now
    statuss, searchAddress, learning,
    saved,             \* the address in EEPROM at DEVICE_EEPROM_ADDRESS
    lastSeen, lastPublish, lastStatusUpdate,
    currentDepartment, lastPublishedDept, lastDeptSeen,
    mpuInitialized, fallStartTime, isFalling,
    currentOrientation, lastOrientation,
    present,
    \* history of what was observable
    pubKind,           \* kind of the last published event, "none" before the first
    pubGap,            \* ms between the last two publishes (capped), -1 before the second
    sawLow,            \* the signal has been below FALL_THRESHOLD at some time
    epStart,           \* millis() at which the signal went below FALL_THRESHOLD, 0 while it is not
    epFalls,           \* falls confirmed by checkFallDetection in the current episode
    lastConfirmAt,     \* millis() of the last confirmation, -1 if none
    matched,           \* a known beacon has been matched by a scan
    passPubs,          \* the kinds loop() has published in the current pass, in order
    cmdOut,            \* the last call of setStatusFunction: its return value and what it published
    deptEmitSeen,      \* zone-contact time recorded at the last scan-triggered emission
    delayArg,          \* the argument of the last rate-limit delay() looked at, NoDelay if none
    nev,               \* events of the environment so far
    nticks             \* passes of time so far

idVars == <<searchAddress, learning, saved>>
pubVars == <<lastPublish, pubKind, pubGap, passPubs>>
deptVars == <<currentDepartment, lastPublishedDept, lastDeptSeen, matched, deptEmitSeen>>
fallVars == <<fallStartTime, isFalling>>
fallHist == <<epFalls, lastConfirmAt>>
orientVars == <<currentOrientation, lastOrientation>>
envVars == <<accel, sawLow, epStart>>
cntVars == <<nev, nticks>>
vars == <<now, pc, ctx, wakeAt, envVars, statuss, idVars, lastSeen, lastStatusUpdate,
          mpuInitialized, present, pubVars, deptVars, fallVars, fallHist, orientVars, cmdOut,
          delayArg, cntVars>>

\* ---- unsigned 32-bit clock arithmetic ---------------------------------
\* TLC's integers are 32-bit signed, so an unsigned difference that wraps is
\* folded at 2^31: a negative difference becomes a value above every time the
\* bounded model reaches, as it does on the device
U32(x) == IF x < 0 THEN (x + 2147483647) + 1 ELSE x
millis == U32(now)
micros == U32(now * 1000)
MaxOf(a, b) == IF a >= b THEN a ELSE b
MinOf(a, b) == IF a <= b THEN a ELSE b

\* ---- pure functions ---------------------------------------------------
\* calculateTotalAcceleration: the magnitude in g is sqrt(SumSq)/16384
SumSq(s) == s[1] * s[1] + s[2] * s[2] + s[3] * s[3]
\* totalAccel < FALL_THRESHOLD (0.5 g), squared on both sides in raw units
\* the measured magnitude is below FALL_THRESHOLD (what the sensor signal is)
BelowThreshold(s) == 4 * SumSq(s) < LSB_PER_G * LSB_PER_G
IsFreeFallMut(s) == 4 * SumSq(s) <= LSB_PER_G * LSB_PER_G
IsFreeFall(s) == 4 * SumSq(s) < LSB_PER_G * LSB_PER_G

\* String::trim() removes the white space at both ends
isspace(c) == c \in {" ", "\t", "\n", "\r"}
RECURSIVE trimLeft(_)
trimLeft(str) ==
    IF str # <<>> /\ isspace(Head(str)) THEN trimLeft(Tail(str)) ELSE str
RECURSIVE trimRight(_)
trimRight(str) ==
    IF str # <<>> /\ isspace(str[Len(str)])
    THEN trimRight(SubSeq(str, 1, Len(str) - 1))
    ELSE str
trimMut(str) == trimLeft(str)
trim(str) == trimRight(trimLeft(str))

\* String::toLowerCase() applies tolower() to every character
LowerOf ==
    "A" :> "a" @@ "B" :> "b" @@ "C" :> "c" @@ "D" :> "d" @@ "E" :> "e" @@ "F" :> "f" @@
    "G" :> "g" @@ "H" :> "h" @@ "I" :> "i" @@ "J" :> "j" @@ "K" :> "k" @@ "L" :> "l" @@
    "M" :> "m" @@ "N" :> "n" @@ "O" :> "o" @@ "P" :> "p" @@ "Q" :> "q" @@ "R" :> "r" @@
    "S" :> "s" @@ "T" :> "t" @@ "U" :> "u" @@ "V" :> "v" @@ "W" :> "w" @@ "X" :> "x" @@
    "Y" :> "y" @@ "Z" :> "z"
tolower(c) == IF c \in DOMAIN LowerOf THEN LowerOf[c] ELSE c
toLowerCase(str) == [i \in 1..Len(str) |-> tolower(str[i])]

\* the value setStatusFunction returns for the trimmed, lower-cased command
CommandCodeMut(cmd) ==
    IF cmd \in {<<"t", "r", "u", "e">>, <<"1">>, <<"o", "n">>} THEN 1
    ELSE IF cmd \in {<<"f", "a", "l", "s", "e">>, <<"0">>, <<"o", "f", "f">>} THEN 0
    ELSE IF cmd = <<"f", "a", "l", "l">> THEN 2
    ELSE IF cmd = <<"a", "r", "g", "1">> THEN 3
    ELSE IF cmd = <<"a", "r", "g", "2">> THEN 4
    ELSE 5
CommandCode(cmd) ==
    IF cmd \in {<<"t", "r", "u", "e">>, <<"1">>, <<"o", "n">>} THEN 1
    ELSE IF cmd \in {<<"f", "a", "l", "s", "e">>, <<"0">>, <<"o", "f", "f">>} THEN 0
    ELSE IF cmd = <<"f", "a", "l", "l">> THEN 2
    ELSE IF cmd = <<"a", "r", "g", "1">> THEN 3
    ELSE IF cmd = <<"a", "r", "g", "2">> THEN 4
    ELSE IF cmd = <<"i", "n", "f", "o">> THEN 5
    ELSE -1

canPublish == U32(millis - lastPublish) >= PUBLISH_INTERVAL_MS
\* the argument of delay() in every emitter
publishDelay == U32(PUBLISH_INTERVAL_MS - U32(millis - lastPublish))

\* az_g > STANDING_Z_MIN (0.7), fabs(az_g) < LYING_Z_MAX (0.4), in raw units
OrientationMut(prev, s) ==
    IF 10 * s[3] > 7 * LSB_PER_G THEN "standing"
    ELSE IF 10 * s[3] < 4 * LSB_PER_G THEN "lying down"
    ELSE prev
Orientation(prev, s) ==
    IF 10 * s[3] > 7 * LSB_PER_G THEN "standing"
    ELSE IF 10 * s[3] < 4 * LSB_PER_G /\ 10 * s[3] > -(4 * LSB_PER_G) THEN "lying down"
    ELSE prev

\* checkDeviceStateChanged: the label it leaves in *presence
PresenceAt(t, seen, prev) ==
    IF t > U32(seen + DEVICE_NOT_HERE_MS) THEN "NotHere"
    ELSE IF seen = 0 THEN "PresenceUnknown"
    ELSE "Here"

\* the scan result callback's decision to publish the department
DeptDueMut(dept) == U32(millis - lastDeptSeen) > DEPT_REPEAT_MS
DeptDue(dept) == dept # lastPublishedDept \/ U32(millis - lastDeptSeen) > DEPT_REPEAT_MS

ScanDue == millis > U32(lastSeen + DEVICE_RE_CHECK_MS)
           \/ millis > U32(lastDeptSeen + DEVICE_RE_CHECK_MS)

\* addr == arg1Address, addr == arg2Address
IsDeptBeaconMut(addr) == addr = ARG1
IsDeptBeacon(addr) == addr \in {ARG1, ARG2}

DeptOfMut(addr) == IF addr = ARG1 THEN "Pediatric dept" ELSE ""
DeptOf(addr) == IF addr = ARG1 THEN "Pediatric dept" ELSE "Cardiac dept"

\* ---- initial state: the globals' initialisers and setup() -------------
Init ==
    /\ now \in BootTimes
    /\ pc = "idle" /\ ctx = "none" /\ wakeAt = 0
    /\ accel = <<0, 0, 16384>>
    /\ statuss = FALSE
    /\ saved \in {NOADDR, "phone"}
    /\ searchAddress = saved
    /\ learning = FALSE
    /\ lastSeen = 0 /\ lastPublish = 0
    /\ lastStatusUpdate = now
    /\ currentDepartment = "" /\ lastPublishedDept = "" /\ lastDeptSeen = 0
    /\ mpuInitialized \in BOOLEAN
    /\ fallStartTime = 0 /\ isFalling = FALSE
    /\ currentOrientation = "lying down" /\ lastOrientation = "lying down"
    /\ present = "PresenceUnknown"
    /\ pubKind = "none" /\ pubGap = -1
    /\ sawLow = BelowThreshold(accel)
    /\ epStart = (IF BelowThreshold(accel) THEN now ELSE 0) /\ epFalls = 0 /\ lastConfirmAt = -1
    /\ matched = FALSE /\ deptEmitSeen = -1
    /\ passPubs = <<>>
    /\ cmdOut = [code |-> NoCall, pubs |-> <<>>]
    /\ delayArg = NoDelay
    /\ nev = 0 /\ nticks = 0

\* ---- the publish step shared by the five emitters ---------------------
\* Particle.publish(kind, ...) at time t followed by lastPublish = millis()
Published(kind, t) ==
    /\ pubKind' = kind
    /\ pubGap' = IF pubKind = "none" THEN -1
                 ELSE MinOf(U32(t - lastPublish), PUBLISH_INTERVAL_MS)
    /\ lastPublish' = U32(t)

\* a publish made by loop() or by what loop() calls
LoopPublished(kind, t) ==
    /\ Published(kind, t)
    /\ passPubs' = Append(passPubs, kind)

\* the head of an emitter called from loop(): publish at once when the rate
\* limit allows it, else block in delay(); Particle.process() comes next
StartEmit(kind) ==
    IF canPublish
    THEN /\ LoopPublished(kind, now)
         /\ pc' = "process" /\ ctx' = kind
         /\ UNCHANGED <<now, wakeAt>>
    ELSE /\ pc' = "wait" /\ ctx' = kind
         /\ wakeAt' = now + publishDelay
         /\ UNCHANGED <<now, pubVars>>

EmitAbandon ==
    /\ pc = "wait"
    /\ now' = MaxOf(now, wakeAt)
    /\ pc' = "periodic" /\ ctx' = "none" /\ wakeAt' = 0
    /\ UNCHANGED <<pubVars, envVars, statuss, idVars, lastSeen, lastStatusUpdate,
                   mpuInitialized, present, deptVars, fallVars, fallHist, orientVars>>

\* delay() has returned inside an emitter: publish, lastPublish = millis()
EmitAfterDelay ==
    /\ pc = "wait"
    /\ now' = MaxOf(now, wakeAt)
    /\ LoopPublished(ctx, now')
    /\ pc' = "process" /\ wakeAt' = 0
    /\ UNCHANGED <<ctx, envVars, statuss, idVars, lastSeen, lastStatusUpdate,
                   mpuInitialized, present, deptVars, fallVars, fallHist, orientVars>>

\* ---- loop(): the sensor polls ------------------------------------------
\* the debounce delay after a confirmed fall
\* if(mpuInitialized) in loop()
SensorsEnabledMut == TRUE
SensorsEnabled == mpuInitialized

FallDebounceMut == FALL_DEBOUNCE_MS - FALL_DEBOUNCE_MS
FallDebounce == FALL_DEBOUNCE_MS

checkFallDetection ==
    /\ pc = "idle" /\ SensorsEnabled
    /\ IF IsFreeFall(accel)
       THEN IF ~isFalling
            THEN /\ fallStartTime' = micros
                 /\ isFalling' = TRUE
                 /\ pc' = "orient"
                 /\ UNCHANGED <<now, ctx, wakeAt, pubVars, fallHist>>
            ELSE IF U32(micros - fallStartTime) >= FALL_DURATION_US
                 THEN /\ epFalls' = epFalls + 1
                      /\ lastConfirmAt' = now
                      /\ StartEmit("falling")
                      /\ UNCHANGED fallVars
                 ELSE /\ pc' = "orient"
                      /\ UNCHANGED <<now, ctx, wakeAt, pubVars, fallVars, fallHist>>
       ELSE /\ isFalling' = FALSE
            /\ pc' = "orient"
            /\ UNCHANGED <<now, ctx, wakeAt, pubVars, fallStartTime, fallHist>>
    /\ UNCHANGED <<envVars, statuss, idVars, lastSeen, lastStatusUpdate, mpuInitialized,
                   present, deptVars, orientVars>>

checkOrientation ==
    /\ pc = "orient"
    /\ currentOrientation' = Orientation(currentOrientation, accel)
    /\ lastOrientation' = currentOrientation'
    /\ pc' = "scancheck"
    /\ UNCHANGED <<now, ctx, wakeAt, envVars, statuss, idVars, lastSeen, lastStatusUpdate,
                   mpuInitialized, present, pubVars, deptVars, fallVars, fallHist>>

\* loop() with mpuInitialized false goes straight to the scan
skipSensors ==
    /\ pc = "idle" /\ ~SensorsEnabled
    /\ pc' = "scancheck"
    /\ UNCHANGED <<now, ctx, wakeAt, envVars, statuss, idVars, lastSeen, lastStatusUpdate,
                   mpuInitialized, present, pubVars, deptVars, fallVars, fallHist,
                   orientVars>>

\* ---- loop(): the BLE scan ----------------------------------------------
loopScan ==
    /\ pc = "scancheck"
    /\ pc' = IF ScanDue THEN "scan" ELSE "periodic"
    /\ UNCHANGED <<now, ctx, wakeAt, envVars, statuss, idVars, lastSeen, lastStatusUpdate,
                   mpuInitialized, present, pubVars, deptVars, fallVars, fallHist,
                   orientVars>>

scanResultCallback(addr) ==
    /\ pc = "scan"
    /\ IF IsDeptBeacon(addr)
       THEN /\ currentDepartment' = DeptOf(addr)
            /\ matched' = TRUE
            /\ IF DeptDue(DeptOf(addr))
               THEN /\ StartEmit("department")
                    /\ UNCHANGED <<lastPublishedDept, lastDeptSeen, deptEmitSeen>>
               ELSE /\ lastDeptSeen' = millis
                    /\ pc' = "periodic"
                    /\ UNCHANGED <<now, ctx, wakeAt, pubVars, lastPublishedDept,
                                   deptEmitSeen>>
            /\ UNCHANGED <<idVars, lastSeen>>
       ELSE IF learning /\ searchAddress = NOADDR
       THEN /\ searchAddress' = addr
            /\ saved' = addr
            /\ learning' = FALSE
            /\ pc' = "periodic"
            /\ UNCHANGED <<now, ctx, wakeAt, pubVars, deptVars, lastSeen>>
       ELSE IF searchAddress # addr
       THEN UNCHANGED <<now, pc, ctx, wakeAt, pubVars, deptVars, idVars, lastSeen>>
       ELSE /\ lastSeen' = millis
            /\ pc' = "periodic"
            /\ UNCHANGED <<now, ctx, wakeAt, pubVars, deptVars, idVars>>
    /\ UNCHANGED <<envVars, statuss, lastStatusUpdate, mpuInitialized, present, fallVars,
                   fallHist, orientVars>>

\* the scan timeout set by BLE.setScanTimeout ends BLE.scan
scanTimeout ==
    /\ pc = "scan"
    /\ pc' = "periodic"
    /\ UNCHANGED <<now, ctx, wakeAt, envVars, statuss, idVars, lastSeen, lastStatusUpdate,
                   mpuInitialized, present, pubVars, deptVars, fallVars, fallHist,
                   orientVars>>

\* ---- loop(): periodic status and presence ------------------------------
loopPeriodic ==
    /\ pc = "periodic"
    /\ IF U32(millis - lastStatusUpdate) >= STATUS_UPDATE_INTERVAL_MS
       THEN StartEmit("periodic_status")
       ELSE /\ pc' = "presence"
            /\ UNCHANGED <<now, ctx, wakeAt, pubVars>>
    /\ UNCHANGED <<envVars, statuss, idVars, lastSeen, lastStatusUpdate, mpuInitialized,
                   present, deptVars, fallVars, fallHist, orientVars>>

loopPresence ==
    /\ pc = "presence"
    /\ present' = PresenceAt(millis, lastSeen, present)
    /\ IF present' # present
       THEN StartEmit("status")
       ELSE /\ pc' = "idle"
            /\ passPubs' = <<>>
            /\ UNCHANGED <<now, ctx, wakeAt, lastPublish, pubKind, pubGap>>
    /\ UNCHANGED <<envVars, statuss, idVars, lastSeen, lastStatusUpdate, mpuInitialized,
                   deptVars, fallVars, fallHist, orientVars>>

\* ---- what follows Particle.process() in each emitter's caller ----------
afterProcess ==
    /\ pc = "process"
    /\ CASE ctx = "falling" ->
              /\ isFalling' = FALSE
              /\ pc' = "delay" /\ ctx' = "debounce"
              /\ wakeAt' = now + FallDebounce
              /\ UNCHANGED <<fallStartTime, deptVars, lastStatusUpdate, passPubs>>
         [] ctx = "department" ->
              /\ lastPublishedDept' = currentDepartment
              /\ lastDeptSeen' = millis
              /\ deptEmitSeen' = now
              /\ pc' = "periodic" /\ ctx' = "none"
              /\ UNCHANGED <<wakeAt, fallVars, currentDepartment, matched, lastStatusUpdate,
                             passPubs>>
         [] ctx = "periodic_status" ->
              /\ lastStatusUpdate' = millis
              /\ pc' = "presence" /\ ctx' = "none"
              /\ UNCHANGED <<wakeAt, fallVars, deptVars, passPubs>>
         [] ctx = "status" ->
              /\ IF statuss /\ present = "Here"
                 THEN /\ pc' = "delay" /\ ctx' = "locdelay"
                      /\ wakeAt' = now + PUBLISH_INTERVAL_MS
                      /\ UNCHANGED passPubs
                 ELSE /\ pc' = "idle" /\ ctx' = "none" /\ wakeAt' = wakeAt
                      /\ passPubs' = <<>>
              /\ UNCHANGED <<fallVars, deptVars, lastStatusUpdate>>
         [] OTHER ->
              /\ pc' = "idle" /\ ctx' = "none"
              /\ passPubs' = <<>>
              /\ UNCHANGED <<wakeAt, fallVars, deptVars, lastStatusUpdate>>
    /\ UNCHANGED <<now, envVars, statuss, idVars, lastSeen, mpuInitialized, present,
                   lastPublish, pubKind, pubGap, fallHist, orientVars>>

\* a plain delay() has returned: the fall debounce, or the pause before
\* sendLocationUpdate()
afterDelay ==
    /\ pc = "delay"
    /\ now' = MaxOf(now, wakeAt)
    /\ IF ctx = "debounce"
       THEN /\ pc' = "orient" /\ ctx' = "none" /\ wakeAt' = 0
            /\ UNCHANGED pubVars
       ELSE /\ IF U32(now' - lastPublish) >= PUBLISH_INTERVAL_MS
               THEN /\ LoopPublished("location", now')
                    /\ pc' = "process" /\ ctx' = "location" /\ wakeAt' = 0
               ELSE /\ pc' = "wait" /\ ctx' = "location"
                    /\ wakeAt' = now' + U32(PUBLISH_INTERVAL_MS - U32(now' - lastPublish))
                    /\ UNCHANGED pubVars
    /\ UNCHANGED <<envVars, statuss, idVars, lastSeen, lastStatusUpdate, mpuInitialized,
                   present, deptVars, fallVars, fallHist, orientVars>>

\* ---- handlers that run where loop() yields ------------------------------
\* Particle.process() runs after every loop() pass, inside delay() and where
\* the emitters call it
Yielding == pc \in {"idle", "wait", "process", "delay"}

\* an emitter called from the cloud function handler runs to its end there
HandlerEmit(kind) ==
    /\ now' = IF canPublish THEN now ELSE now + publishDelay
    /\ Published(kind, now')
    /\ UNCHANGED passPubs

setStatusFunction(command) ==
    LET cmd == toLowerCase(trim(command))
        code == CommandCode(cmd)
    IN
    /\ Yielding
    /\ CASE code = 1 ->
              /\ statuss' = TRUE
              /\ cmdOut' = [code |-> 1, pubs |-> <<>>]
              /\ UNCHANGED <<now, pubVars, currentDepartment, lastPublishedDept>>
         [] code = 0 ->
              /\ statuss' = FALSE
              /\ cmdOut' = [code |-> 0, pubs |-> <<>>]
              /\ UNCHANGED <<now, pubVars, currentDepartment, lastPublishedDept>>
         [] code = 2 ->
              /\ HandlerEmit("falling")
              /\ cmdOut' = [code |-> 2, pubs |-> << <<"falling">> >>]
              /\ UNCHANGED <<statuss, currentDepartment, lastPublishedDept>>
         [] code \in {3, 4} ->
              /\ currentDepartment' = IF code = 3 THEN "Pediatric dept"
                                      ELSE "Cardiac dept"
              /\ HandlerEmit("department")
              /\ lastPublishedDept' = currentDepartment'
              /\ cmdOut' = [code |-> code,
                            pubs |-> << <<"department", currentDepartment', 0>> >>]
              /\ UNCHANGED statuss
         [] code = 5 ->
              /\ HandlerEmit("periodic_status")
              /\ cmdOut' = [code |-> 5, pubs |-> << <<"periodic_status">> >>]
              /\ UNCHANGED <<statuss, currentDepartment, lastPublishedDept>>
         [] OTHER ->
              /\ cmdOut' = [code |-> -1, pubs |-> <<>>]
              /\ UNCHANGED <<now, pubVars, statuss, currentDepartment, lastPublishedDept>>
    /\ UNCHANGED <<pc, ctx, wakeAt, envVars, idVars, lastSeen, lastStatusUpdate,
                   mpuInitialized, present, lastDeptSeen, matched, deptEmitSeen, fallVars,
                   fallHist, orientVars>>

eventHandlerZoneMut ==
    /\ pc = "idle"
    /\ currentDepartment' = ""
    /\ IF learning
       THEN learning' = FALSE /\ UNCHANGED <<searchAddress, saved>>
       ELSE searchAddress' = NOADDR /\ learning' = TRUE /\ UNCHANGED saved
    /\ UNCHANGED <<now, pc, ctx, wakeAt, envVars, statuss, lastSeen, lastStatusUpdate,
                   mpuInitialized, present, pubVars, lastPublishedDept, lastDeptSeen,
                   matched, deptEmitSeen, fallVars, fallHist, orientVars>>

\* the MODE button; it writes only what the scan callback reads, so a click
\* inside a pass of loop() acts as one before the pass
eventHandler ==
    /\ pc = "idle"
    /\ IF learning
       THEN learning' = FALSE /\ UNCHANGED <<searchAddress, saved>>
       ELSE searchAddress' = NOADDR /\ learning' = TRUE /\ UNCHANGED saved
    /\ UNCHANGED <<now, pc, ctx, wakeAt, envVars, statuss, lastSeen, lastStatusUpdate,
                   mpuInitialized, present, pubVars, deptVars, fallVars, fallHist,
                   orientVars>>

\* ---- the environment ----------------------------------------------------
\* the acceleration the sensor measures changes; loop() reads it at the top of
\* a pass and after the debounce delay
SensorChange(s) ==
    /\ pc \in {"idle", "delay"}
    /\ s # accel
    /\ accel' = s
    /\ sawLow' = (sawLow \/ BelowThreshold(s))
    /\ IF BelowThreshold(s) = BelowThreshold(accel)
       THEN UNCHANGED <<epStart, epFalls>>
       ELSE epStart' = (IF BelowThreshold(s) THEN now ELSE 0) /\ epFalls' = 0
    /\ UNCHANGED <<now, pc, ctx, wakeAt, statuss, idVars, lastSeen, lastStatusUpdate,
                   mpuInitialized, present, pubVars, deptVars, fallVars, lastConfirmAt,
                   orientVars>>

\* the head of an emitter called where loop() yields, up to its call of
\* delay(): canPublish() reads millis() and finds the interval not over, the
\* argument of delay() reads millis() again, skew ms later
publishDelayAt(t) == U32(PUBLISH_INTERVAL_MS - U32(U32(t) - lastPublish))

rateLimitDelay(skew) ==
    /\ Yielding
    /\ ~canPublish
    /\ delayArg' = publishDelayAt(now + skew)
    /\ UNCHANGED <<now, pc, ctx, wakeAt, envVars, statuss, idVars, lastSeen,
                   lastStatusUpdate, mpuInitialized, present, pubVars, deptVars, fallVars,
                   fallHist, orientVars, cmdOut, cntVars>>

\* time passes between two passes of loop()
Tick(d) ==
    /\ pc = "idle"
    /\ now' = now + d
    /\ UNCHANGED <<pc, ctx, wakeAt, envVars, statuss, idVars, lastSeen, lastStatusUpdate,
                   mpuInitialized, present, pubVars, deptVars, fallVars, fallHist,
                   orientVars>>

\* a scan result that the callback acts on
Matches(addr) ==
    \/ IsDeptBeacon(addr)
    \/ learning /\ searchAddress = NOADDR
    \/ searchAddress = addr

\* the program's own steps
Program ==
    \/ checkFallDetection /\ UNCHANGED <<cmdOut, delayArg, cntVars>>
    \/ checkOrientation /\ UNCHANGED <<cmdOut, delayArg, cntVars>>
    \/ skipSensors /\ UNCHANGED <<cmdOut, delayArg, cntVars>>
    \/ loopScan /\ UNCHANGED <<cmdOut, delayArg, cntVars>>
    \/ scanTimeout /\ UNCHANGED <<cmdOut, delayArg, cntVars>>
    \/ loopPeriodic /\ UNCHANGED <<cmdOut, delayArg, cntVars>>
    \/ loopPresence /\ UNCHANGED <<cmdOut, delayArg, cntVars>>
    \/ EmitAfterDelay /\ UNCHANGED <<cmdOut, delayArg, cntVars>>
    \/ afterProcess /\ UNCHANGED <<cmdOut, delayArg, cntVars>>
    \/ afterDelay /\ UNCHANGED <<cmdOut, delayArg, cntVars>>
    \/ \E addr \in Addresses :
          ~Matches(addr) /\ scanResultCallback(addr) /\ UNCHANGED <<cmdOut, delayArg, cntVars>>

\* one more of the things the environment does, at most maxEvents in a run
Spend(maxEvents) ==
    nev < maxEvents /\ nev' = nev + 1 /\ UNCHANGED <<nticks, delayArg>>

\* a scan result the callback acts on
Radio(maxEvents) ==
    \E addr \in Addresses :
      Matches(addr) /\ Spend(maxEvents) /\ scanResultCallback(addr) /\ UNCHANGED cmdOut

\* the wearer moves
Motion(samples, maxEvents) ==
    \E s \in samples : Spend(maxEvents) /\ SensorChange(s) /\ UNCHANGED cmdOut

Command(commands, maxEvents) ==
    \E command \in commands : Spend(maxEvents) /\ setStatusFunction(command)

Event(maxEvents) ==
    \/ Radio(maxEvents)
    \/ Command(Commands, maxEvents)
    \/ Spend(maxEvents) /\ eventHandler /\ UNCHANGED cmdOut
    \/ Motion(Samples, maxEvents)

Pass(ticks, maxTicks) ==
    /\ nticks < maxTicks
    /\ nticks' = nticks + 1
    /\ UNCHANGED <<nev, cmdOut, delayArg>>
    /\ \E d \in ticks : Tick(d)

NextFast == Program \/ Event(MaxEventsFast) \/ Pass(FastTicks, MaxTicksFast)
NextSlow == Program \/ Event(MaxEventsSlow) \/ Pass(SlowTicks, MaxTicksSlow)
\* a run without commands and button clicks
NextBeacon ==
    \/ Program
    \/ Radio(MaxEventsBeacon)
    \/ Motion(Samples, MaxEventsBeacon)
    \/ Pass(SlowTicks, MaxTicksBeacon)
\* a run without commands and button clicks, long enough for two falls
NextFall ==
    \/ Program
    \/ Radio(MaxEventsFall)
    \/ Motion(Samples, MaxEventsFall)
    \/ Pass(FastTicks, MaxTicksFall)
\* a run without commands and button clicks, with the orientation samples
NextOrient ==
    \/ Program
    \/ Radio(MaxEventsOrient)
    \/ Motion(OrientSamples, MaxEventsOrient)
    \/ Pass(FastTicks, MaxTicksOrient)
\* a run whose cloud calls are the commands that emit an event
NextLive ==
    \/ Program
    \/ Radio(MaxEventsLive)
    \/ Command(EmitCommands, MaxEventsLive)
    \/ Motion(Samples, MaxEventsLive)
    \/ Pass(ShortTicks, MaxTicksLive)
\* a run in which the delay an emitter would ask for is looked at
NextDelay ==
    \/ Program
    \/ Radio(MaxEventsDelay)
    \/ Command(EmitCommands, MaxEventsDelay)
    \/ Motion(Samples, MaxEventsDelay)
    \/ Pass(DelayTicks, MaxTicksDelay)
    \/ \E skew \in ClockSkews : rateLimitDelay(skew)
\* a run with the commands that switch location push and force a fall alert
NextPush ==
    \/ Program
    \/ Radio(MaxEventsPush)
    \/ Command(PushCommands, MaxEventsPush)
    \/ Pass(SlowTicks, MaxTicksPush)
\* a short run with every cloud call
NextCmd == Program \/ Event(MaxEventsCmd) \/ Pass(ShortTicks, MaxTicksCmd)
NextDwell == Program \/ Event(MaxEventsDwell) \/ Pass(SlowTicks, MaxTicksDwell)

SpecFast == Init /\ [][NextFast]_vars
SpecSlow == Init /\ [][NextSlow]_vars
SpecBeacon == Init /\ [][NextBeacon]_vars
SpecFall == Init /\ [][NextFall]_vars
SpecOrient == Init /\ [][NextOrient]_vars
\* loop() never stops running: a step of the program that can be taken is taken
SpecLive == Init /\ [][NextLive]_vars /\ WF_vars(Program)
SpecDwell == Init /\ [][NextDwell]_vars
SpecCmd == Init /\ [][NextCmd]_vars
SpecDelay == Init /\ [][NextDelay]_vars
SpecPush == Init /\ [][NextPush]_vars

\* ======================= properties ======================================

\* C1: any two consecutive publishes, of any kinds and from any caller
\* (loop(), the scan callback, the setStatus handler), are at least
\* PUBLISH_INTERVAL_MS apart
C1_PublishSpacing == pubGap = -1 \/ pubGap >= PUBLISH_INTERVAL_MS

\* C2: while the magnitude has never been below FALL_THRESHOLD,
\* checkFallDetection has confirmed no fall and isFalling is false
C2_NoFallAboveThreshold ==
    ~sawLow => (~isFalling /\ lastConfirmAt = -1 /\ epFalls = 0)

\* a poll has read a sample of exactly FALL_THRESHOLD and none was ever lower
C2_Witness ==
    /\ ~sawLow /\ mpuInitialized
    /\ pc = "orient"
    /\ 4 * SumSq(accel) = LSB_PER_G * LSB_PER_G

\* C3: within one episode of the magnitude staying below FALL_THRESHOLD at
\* most one fall is confirmed, however long the episode lasts
C3_OneFallPerEpisode == epFalls <= 1

\* C4: when the magnitude recovers after exactly FALL_DURATION below the
\* threshold one fall has been confirmed in the episode, and when it recovers
\* after 1 ms less none has, whatever loop() did between the polls
C4_ExactDuration ==
    [][(BelowThreshold(accel) /\ ~BelowThreshold(accel')) =>
         /\ (now - epStart) * 1000 = FALL_DURATION_US => epFalls = 1
         /\ (now - epStart) * 1000 = FALL_DURATION_US - 1000 => epFalls = 0]_vars

\* C5: a fall confirmed by checkFallDetection comes at least the debounce
\* delay (1 s) after the confirmation before it, also when the magnitude
\* stays below FALL_THRESHOLD throughout
C5_Cooldown ==
    [][(epFalls' > epFalls /\ lastConfirmAt # -1) =>
         lastConfirmAt' - lastConfirmAt >= FALL_DEBOUNCE_MS]_vars

\* a second fall has been confirmed in one episode
C5_Witness == epFalls >= 2 /\ lastConfirmAt > 0 /\ BelowThreshold(accel)

\* C6: while lastSeen is 0 the presence label is Unknown, whatever time has
\* passed, and no status event has been published
C6_UnknownBeforeContact ==
    lastSeen = 0 => (present = "PresenceUnknown" /\ pubKind # "status")

\* C7: with a contact recorded, checkDeviceStateChanged leaves NotHere
\* exactly when millis() - lastSeen >= DEVICE_NOT_HERE_MS, and Here otherwise
C7_NotHereAtTimeout ==
    [][(pc = "presence" /\ pc' # "presence" /\ lastSeen # 0) =>
         IF now - lastSeen >= DEVICE_NOT_HERE_MS
         THEN present' = "NotHere"
         ELSE present' = "Here"]_vars

\* C8: the first contact finds the label Unknown and the evaluation that
\* follows makes it Here; with a contact recorded no evaluation leaves Unknown
C8_FirstContact ==
    [][/\ (lastSeen = 0 /\ lastSeen' # 0) => present = "PresenceUnknown"
       /\ (pc = "presence" /\ pc' # "presence" /\ lastSeen # 0) =>
             /\ present' # "PresenceUnknown"
             /\ present = "PresenceUnknown" => present' = "Here"]_vars

\* C9: a scan match of the zone published last, more than 60 s after the zone
\* contact recorded at the previous emission, publishes the department again
C9_ReEmitAfterWindow ==
    [][\A addr \in {ARG1, ARG2} :
         (/\ scanResultCallback(addr)
          /\ DeptOf(addr) = lastPublishedDept
          /\ deptEmitSeen >= 0
          /\ now - deptEmitSeen > DEPT_REPEAT_MS) =>
             (ctx' = "department" /\ pc' \in {"wait", "process"})]_vars

C11_ZonePersists ==
    [][currentDepartment # "" =>
         /\ currentDepartment' # ""
         /\ currentDepartment' # currentDepartment =>
               currentDepartment' \in {"Pediatric dept", "Cardiac dept"}]_vars

\* a zone label is still held 30 s after its beacon was last matched
C11_Witness ==
    /\ currentDepartment # "" /\ matched
    /\ now - lastDeptSeen >= DEVICE_NOT_HERE_MS
    /\ pc = "presence"

\* C12: setStatusFunction maps the trimmed, lower-cased command to its code
\* and effect: true/1/on return 1 and set statuss; false/0/off return 0 and
\* clear it; fall returns 2 after one falling publish; arg1/arg2 return 3/4
\* after one department publish with rssi 0 for the Pediatric/Cardiac zone;
\* info returns 5 after one periodic_status publish.  In particular " ON"
\* followed by a newline is the command on and "ARG1 " is the command arg1
C12_CommandCodes ==
    [][\A command \in Commands :
         setStatusFunction(command) =>
           LET cmd == toLowerCase(trim(command)) IN
           /\ cmd \in {<<"t", "r", "u", "e">>, <<"1">>, <<"o", "n">>} =>
                 cmdOut' = [code |-> 1, pubs |-> <<>>] /\ statuss' /\ UNCHANGED pubVars
           /\ cmd \in {<<"f", "a", "l", "s", "e">>, <<"0">>, <<"o", "f", "f">>} =>
                 cmdOut' = [code |-> 0, pubs |-> <<>>] /\ ~statuss' /\ UNCHANGED pubVars
           /\ cmd = <<"f", "a", "l", "l">> =>
                 /\ cmdOut' = [code |-> 2, pubs |-> << <<"falling">> >>]
                 /\ pubKind' = "falling" /\ lastPublish' = U32(now')
           /\ cmd = <<"a", "r", "g", "1">> =>
                 /\ cmdOut' = [code |-> 3, pubs |-> << <<"department", "Pediatric dept", 0>> >>]
                 /\ pubKind' = "department" /\ lastPublish' = U32(now')
           /\ cmd = <<"a", "r", "g", "2">> =>
                 /\ cmdOut' = [code |-> 4, pubs |-> << <<"department", "Cardiac dept", 0>> >>]
                 /\ pubKind' = "department" /\ lastPublish' = U32(now')
           /\ cmd = <<"i", "n", "f", "o">> =>
                 /\ cmdOut' = [code |-> 5, pubs |-> << <<"periodic_status">> >>]
                 /\ pubKind' = "periodic_status" /\ lastPublish' = U32(now')
           /\ command = <<" ", "O", "N", "\n">> => cmdOut'.code = 1
           /\ command = <<"A", "R", "G", "1", " ">> => cmdOut'.code = 3]_vars

\* the command arg2 has returned 4 and published the Cardiac department
C12_Witness ==
    /\ cmdOut = [code |-> 4, pubs |-> << <<"department", "Cardiac dept", 0>> >>]
    /\ pubKind = "department" /\ lastPublish = U32(now)
    /\ currentDepartment = "Cardiac dept"

\* C13: for a command outside the recognised set setStatusFunction returns
\* -1, publishes nothing and leaves every variable of the program unchanged
C13_InvalidCommand ==
    [][\A command \in Commands :
         (/\ setStatusFunction(command)
          /\ toLowerCase(trim(command)) \notin
                {<<"t", "r", "u", "e">>, <<"1">>, <<"o", "n">>, <<"f", "a", "l", "s", "e">>, <<"0">>, <<"o", "f", "f">>,
                 <<"f", "a", "l", "l">>, <<"a", "r", "g", "1">>, <<"a", "r", "g", "2">>, <<"i", "n", "f", "o">>}) =>
           /\ cmdOut' = [code |-> -1, pubs |-> <<>>]
           /\ UNCHANGED <<now, pc, ctx, wakeAt, statuss, idVars, lastSeen, lastStatusUpdate,
                          mpuInitialized, present, lastPublish, pubKind, currentDepartment,
                          lastPublishedDept, lastDeptSeen, fallVars, orientVars>>]_vars

\* an unrecognised command has been rejected
C13_Witness == cmdOut.code = -1 /\ nev > 0

\* C14: for every previous label and every vertical sample checkOrientation
\* yields standing when az_g > 0.7, lying down when |az_g| < 0.4 and the
\* previous label otherwise; a sample with 0.4 g <= |az| <= 0.7 g changes
\* neither the label nor lastOrientation, so no change is logged
C14_Orientation ==
    [][(pc = "orient" /\ pc' = "scancheck") =>
         LET az == accel[3]
             mag == IF az < 0 THEN -az ELSE az
         IN
         /\ 10 * az > 7 * LSB_PER_G => currentOrientation' = "standing"
         /\ 10 * mag < 4 * LSB_PER_G => currentOrientation' = "lying down"
         /\ (10 * az <= 7 * LSB_PER_G /\ 10 * mag >= 4 * LSB_PER_G) =>
               currentOrientation' = currentOrientation
         /\ (10 * mag >= 4 * LSB_PER_G /\ 10 * mag <= 7 * LSB_PER_G) =>
               /\ currentOrientation' = currentOrientation
               /\ lastOrientation' = lastOrientation
         /\ lastOrientation' = currentOrientation']_vars

\* a poll has read -0.5 g on the vertical axis and kept the label standing
C14_Witness ==
    /\ mpuInitialized /\ pc = "scancheck"
    /\ accel = <<0, 0, -8192>>
    /\ currentOrientation = "standing" /\ lastOrientation = "standing"

\* C15: the events loop() publishes in one pass come in the priority order
\* department, then fall, then status
C15_PriorityOrder ==
    \A i, j \in 1..Len(passPubs) :
       i < j =>
         /\ ~(passPubs[i] = "falling" /\ passPubs[j] = "department")
         /\ ~(passPubs[i] = "status" /\ passPubs[j] \in {"department", "falling"})

\* C16: a fall or department emission that has to wait for the publish
\* interval is published when the wait ends, before loop() goes on, and the
\* wait always ends
C16_EmissionCompletes ==
    /\ [][(pc = "wait" /\ pc' # "wait") =>
            (pc' = "process" /\ ctx' = ctx /\ pubKind' = ctx /\ lastPublish' = U32(now'))]_vars
    /\ \A kind \in {"falling", "department"} :
          (pc = "wait" /\ ctx = kind) ~> (pc = "process" /\ ctx = kind /\ pubKind = kind)

\* a confirmed fall is waiting in delay() for the publish interval to pass
C16_Witness == pc = "wait" /\ ctx = "falling" /\ wakeAt > now /\ epFalls = 1

\* C17: in learning mode the first scan result that is not a department
\* beacon becomes the tracked address, is written to EEPROM and turns
\* learning mode off; a department beacon is never captured; outside learning
\* mode no scan result changes the tracked address
C17_LearningMode ==
    [][\A addr \in Addresses :
         scanResultCallback(addr) =>
           /\ (learning /\ addr \notin {ARG1, ARG2}) =>
                 (searchAddress' = addr /\ saved' = addr /\ ~learning')
           /\ addr \in {ARG1, ARG2} => UNCHANGED <<searchAddress, saved, learning>>
           /\ ~learning => UNCHANGED <<searchAddress, saved>>]_vars

\* a device seen in learning mode has been captured and saved, and a later
\* result of the scan is being handled
C17_Witness ==
    /\ searchAddress = "watch" /\ saved = "watch" /\ ~learning
    /\ pc = "scan"

\* C18: when initMPU6050 has failed, no fall is ever confirmed by the
\* detector, isFalling stays false and the orientation label keeps its
\* initial value, while loop() goes on scanning and evaluating presence
C18_SensorFailure ==
    ~mpuInitialized =>
        /\ epFalls = 0 /\ lastConfirmAt = -1 /\ ~isFalling /\ fallStartTime = 0
        /\ currentOrientation = "lying down" /\ lastOrientation = "lying down"

\* without the sensor the magnitude has been at 0.2 g for 300 ms and more,
\* and loop() has meanwhile found the tracked device
C18_Witness ==
    /\ ~mpuInitialized
    /\ BelowThreshold(accel) /\ (now - epStart) * 1000 >= FALL_DURATION_US
    /\ present = "Here" /\ pubKind = "status"
    /\ pc = "idle"

C20_EmitterAtomic ==
    [][(pc = "wait" /\ pc' = "wait") => UNCHANGED <<lastPublish, pubKind, pubGap>>]_vars

\* C21: every wait taken to respect the publish-rate floor is shorter than
\* one second: the argument PUBLISH_INTERVAL_MS - (millis() - lastPublish) of
\* delay() is below 1000 ms, also when the clock advances between
\* canPublish() and the computation of the argument
C21_SubSecondWait ==
    /\ delayArg # NoDelay => delayArg < 1000
    /\ (pc = "wait" /\ wakeAt > now) => wakeAt - now < 1000

\* C22: loop() emits a status event exactly when a presence evaluation
\* changes the presence label; a location event is emitted only directly
\* after such a status event, when location push is enabled and the new label
\* is Here; a pass of loop() in which the label does not change emits no
\* location event, whatever the commands did to location push
C22_StatusAndLocation ==
    [][/\ present' # present => (pc' \in {"process", "wait"} /\ ctx' = "status")
       /\ (pc # "wait" /\ pc' = "wait" /\ ctx' = "status") => present' # present
       /\ passPubs' = Append(passPubs, "status") =>
             (present' # present \/ (pc = "wait" /\ ctx = "status"))
       /\ passPubs' = Append(passPubs, "location") =>
             /\ passPubs # <<>> /\ passPubs[Len(passPubs)] = "status"
             /\ pubKind = "status"
             /\ statuss /\ present = "Here"]_vars

====
